---- MODULE Spec2Model ----
(***************************************************************************)
(* A model of ORB_SLAM3_Wrapper::ORBSLAM3Interface                         *)
(* (src/orb_slam3_ros2_wrapper/src/orb_slam3_interface.cpp).               *)
(*                                                                         *)
(* The interface object is used by three kinds of callers, each a thread   *)
(* of the ROS executor: the inertial feed (handleIMU), the image-pair feed *)
(* (trackRGBDi / trackRGBD) and the query path (mapDataToMsg,              *)
(* getMapToOdomTF).  The SLAM engine (ORB_SLAM3::System, its Atlas, Maps   *)
(* and KeyFrames) is the environment: its own threads create keyframes and *)
(* maps, cull keyframes and merge maps at any time.                        *)
(*                                                                         *)
(* Each statement of the source that touches shared state is one step of   *)
(* the calling thread; a whole critical section of bufMutex_ that no other *)
(* thread can observe (the drain loop) is one step.                        *)
(*                                                                         *)
(* Poses are rigid motions of a line over Z_3, x |-> s*x + t with s in     *)
(* {1,-1} and t in 0..2: a finite, non-commutative group standing for the  *)
(* rigid motions of space.  Timestamps are the values stampToSec gives, in *)
(* whole ticks.                                                            *)
(*                                                                         *)
(* A call through a null pointer (the keyframe pointer operator[] inserts  *)
(* at line 87) or through orbAtlas_ before line 226 has assigned it is a   *)
(* fault that ends the process: crashed becomes TRUE and nothing runs      *)
(* after it.  A walk of allKFs_ whose nodes line 74 has freed either       *)
(* faults or goes on over the old nodes.  An Eigen::Affine3d that          *)
(* operator[] default-constructs holds whatever its memory held: it is the *)
(* value Indeterminate, and so is every pose computed from it.             *)
(*                                                                         *)
(* The two std::maps and latestTrackedPose_ are shared without a common    *)
(* lock.  Two accesses that may run at the same time are a data race: the  *)
(* access then also has the outcomes of a fault and of a lost or torn      *)
(* value.  The destructor may run while callbacks are inside the object.   *)
(***************************************************************************)
EXTENDS Integers, Sequences, FiniteSets, TLC

(***************************************************************************)
(* Bounds of the model.                                                    *)
(***************************************************************************)
\* IMU messages that arrive during a run.
MaxSamples == 3
\* Image pairs that arrive during a run.
MaxFrames == 3
\* Timestamps are 1..MaxStamp.
MaxStamp == 3
\* Keyframes the engine creates during a run (identifiers 0..MaxKF-1).
MaxKF == 3
\* Maps the engine creates during a run (identifiers 1..MaxMaps).
MaxMaps == 3
\* Distinct poses the engine reports during a run.
MaxPoses == 2
\* Map points the engine creates during a run (identifiers 1..MaxPoints).
MaxPoints == 2
\* Calls of mapDataToMsg during a run.
MaxSnaps == 1
\* Calls of getMapToOdomTF during a run.
MaxOdoms == 1

\* The configured robot start position (constructor argument robotX).
robotX_ == 1

\* The runs explored, each by what the environment delivers during it: IMU
\* messages and image pairs over a one-map atlas; a growing, culled and merged
\* atlas; the same with a query running beside the tracking; map points under
\* a query; a query over two keyframes; odometry beside inertial tracking;
\* one inertial call with samples to hand over while the object is destroyed;
\* image pairs without end beside one IMU message.
\* stamps is the latest time stamp a message of the run carries (without IMU
\* messages the image stamps decide nothing); dtor tells whether the owner of
\* the object may destroy it during the run; endless tells whether image
\* pairs keep arriving for as long as the process runs (frames is then the
\* range of the call numbers, which are reused cyclically).
Supplies ==
    {[samples |-> MaxSamples, frames |-> MaxFrames - 1, stamps |-> MaxStamp,
      kfs |-> 1, maps |-> 1, poses |-> 1, points |-> 0, snaps |-> 0,
      odoms |-> 0, dtor |-> FALSE, endless |-> FALSE],
     [samples |-> 0, frames |-> MaxFrames + 1, stamps |-> 1,
      kfs |-> MaxKF, maps |-> MaxMaps, poses |-> MaxPoses, points |-> 0,
      snaps |-> 0, odoms |-> 0, dtor |-> FALSE, endless |-> FALSE],
     [samples |-> 0, frames |-> MaxFrames, stamps |-> 1,
      kfs |-> MaxKF - 1, maps |-> MaxMaps - 1, poses |-> 1, points |-> 0,
      snaps |-> MaxSnaps, odoms |-> 0, dtor |-> FALSE, endless |-> FALSE],
     [samples |-> 0, frames |-> MaxFrames - 1, stamps |-> 1,
      kfs |-> 1, maps |-> 1, poses |-> 1, points |-> MaxPoints,
      snaps |-> MaxSnaps, odoms |-> 0, dtor |-> TRUE, endless |-> FALSE],
     [samples |-> 0, frames |-> MaxFrames - 1, stamps |-> 1,
      kfs |-> MaxKF - 1, maps |-> 1, poses |-> 1, points |-> 0,
      snaps |-> MaxSnaps, odoms |-> 0, dtor |-> TRUE, endless |-> FALSE],
     [samples |-> 1, frames |-> MaxFrames - 1, stamps |-> MaxStamp - 1,
      kfs |-> 1, maps |-> 1, poses |-> MaxPoses, points |-> 0, snaps |-> 0,
      odoms |-> MaxOdoms, dtor |-> TRUE, endless |-> FALSE],
     [samples |-> MaxSamples - 1, frames |-> 1, stamps |-> MaxStamp - 1,
      kfs |-> 1, maps |-> 1, poses |-> 1, points |-> 0, snaps |-> 0,
      odoms |-> 0, dtor |-> TRUE, endless |-> FALSE],
     [samples |-> 1, frames |-> MaxFrames - 1, stamps |-> 1,
      kfs |-> 1, maps |-> 1, poses |-> 1, points |-> 0, snaps |-> 0,
      odoms |-> 0, dtor |-> FALSE, endless |-> TRUE]}

Stamps == 1..MaxStamp
\* The stamps the messages of a run carry.
StampsUpTo(n) == {t \in Stamps : t <= n}
KFIds == 0..(MaxKF - 1)
MapIds == 1..MaxMaps
\* A null KeyFrame*.
NullKF == -1
\* No map: a null Map*.
NoMap == 0
\* An Eigen::Affine3d whose coefficients were never written, and every pose
\* computed from one: its value is whatever the memory held.
Indeterminate == <<0, 0>>
\* A point computed from such a pose.
IndeterminatePoint == -1
\* The TransformStamped as the caller of getMapToOdomTF constructed it.
CallerTF == <<0, 1>>
\* The Sophus::SE3f a caller passes as Tcw: a default-constructed one.
CallerTcw == [R |-> 1, t |-> 0]

(***************************************************************************)
(* Poses.                                                                  *)
(***************************************************************************)
\* Eigen::Affine3d values: <<s, t>> is x |-> s*x + t over Z_3.
Affine == {<<s, t>> : s \in {1, -1}, t \in 0..2}
\* Sophus::SE3f values, the engine's representation.
SE3 == [R : {1, -1}, t : 0..2]
\* The poses the engine reports (a keyframe's pose, Tcw, an odometry pose): the
\* first few of the six.
SE3List ==
    <<[R |-> -1, t |-> 2], [R |-> 1, t |-> 1], [R |-> -1, t |-> 0],
      [R |-> 1, t |-> 2], [R |-> -1, t |-> 1], [R |-> 1, t |-> 0]>>
PosesUpTo(n) == {SE3List[j] : j \in 1..(IF n < Len(SE3List) THEN n ELSE Len(SE3List))}

\* a * b of Eigen: first b, then a.
Compose(a, b) ==
    IF a = Indeterminate \/ b = Indeterminate
    THEN Indeterminate
    ELSE <<a[1] * b[1], (a[2] + a[1] * b[2]) % 3>>
\* a.inverse() of Eigen.
Inverse(a) ==
    IF a = Indeterminate THEN Indeterminate
    ELSE <<a[1], ((0 - a[1]) * a[2]) % 3>>
\* WrapperTypeConversions::se3ToAffine: the engine's pose as an affine transform.
se3ToAffine(p) == <<p.R, p.t>>
\* WrapperTypeConversions::transformPoseWithReference: reference o local.
transformPoseWithReference(ref, p) == Compose(ref, se3ToAffine(p))
\* MapPoint::GetWorldPos() of map point q, in its map's frame.
GetWorldPos(q) == q % 3
\* WrapperTypeConversions::vector3fORBToROS: the engine's axes to ROS axes.
vector3fORBToROS(x) == (0 - x) % 3
\* WrapperTypeConversions::transformPointWithReference: reference applied to a point.
transformPointWithReference(ref, x) ==
    IF ref = Indeterminate THEN IndeterminatePoint ELSE (ref[1] * x + ref[2]) % 3
\* Translation3d(robotX_, robotY_, 0) * Quaterniond(1, 0, 0, 0).
poseOffset == <<1, robotX_ % 3>>

(***************************************************************************)
(* Helpers on sequences and finite maps.                                   *)
(***************************************************************************)
Range(s) == {s[i] : i \in DOMAIN s}
Min(a, b) == IF a <= b THEN a ELSE b
EmptyMap == [x \in {} |-> 0]
\* A freshly constructed slam_msgs::msg::MapData.
EmptyMsg == [poses_id |-> <<>>, poses |-> <<>>, nodes |-> <<>>]
\* A freshly constructed slam_msgs::msg::KeyFrame (line 123), before its id is set.
EmptyKf == [id |-> -1, word_pts |-> <<>>]
\* std::map::operator[] used as an lvalue: m[k] = v.
Put(m, k, v) == [x \in (DOMAIN m) \cup {k} |-> IF x = k THEN v ELSE m[x]]

VARIABLES
    \* ---- the environment's supply of events for the run ----
    supply,         \* how many IMU messages, keyframes and maps the run may see
    \* ---- the engine (environment) ----
    liveMaps,       \* Atlas::GetAllMaps(): the maps of the atlas
    initKFid,       \* Map::GetInitKFid(), per created map
    mapKFs,         \* Map::GetAllKeyFrames(), per map
    kfMap,          \* KeyFrame::GetMap(), per created keyframe
    kfPose,         \* KeyFrame::GetPose(), per created keyframe
    curMap,         \* Atlas::GetCurrentMap()
    nNextId,        \* KeyFrame::nNextId: keyframes created so far
    nMaps,          \* maps created so far
    kfPoints,       \* KeyFrame::GetMapPoints(), per keyframe
    badPts,         \* the map points whose isBad() is true
    nPoints,        \* map points created so far
    engineImuLog,   \* the inertial samples TrackRGBD was given, call after call
    \* ---- the interface object ----
    orbAtlas_,      \* TRUE once orbAtlas_ points to the engine's atlas
    allKFs_,        \* std::map<id, KeyFrame*>
    mapReferencePoses_, \* std::map<Map*, Eigen::Affine3d>
    latestTrackedPose_,
    hasTracked_,
    imuBuf_,        \* std::queue of IMU messages
    bufMutex_,      \* "free" or the thread that holds it
    mapDataMutex_,  \* "free" or the thread that holds it
    crashed,        \* the process was killed by a fault
    pcDtor,         \* where ~ORBSLAM3Interface stands ("idle" until it is called)
    \* ---- the inertial feed thread (handleIMU) ----
    pcImu, msgIMU, nArrived,
    \* ---- the image-pair thread (trackRGBDi / trackRGBD) ----
    pcTrack, nFrames, inertial, frameStamp,
    sawEmpty,       \* what imuBuf_.empty() gave at line 253
    vImuMeas,
    Tcw,            \* the caller's Sophus::SE3f, passed by reference
    currentTrackingState,
    mergeDetected,  \* what mergeDetected() gave in the latest engine call
    mapsList, c,
    mpIdKFs,        \* makeKFIdPair's local index under construction (line 47)
    mi,             \* the position of makeKFIdPair's loop over the maps
    retTrack,       \* what the last tracking call returned ("none" while one runs)
    diag,           \* the diagnostic the last tracking call printed
    \* ---- the query thread (mapDataToMsg) ----
    pcSnap, nSnaps,
    currentMapKFOnly, includeMapPoints, kFIDforMapPoints,
    vKeyFrames,     \* the keyframes the pose-graph loop walks, in its order
    itValid,        \* FALSE once the index was replaced under a walk of allKFs_
    it,             \* the position of the running loop
    vPts,           \* the map points GetMapPoints() gave, in the loop's order
    jt,             \* the position of the running loop over vPts
    pushedKf,       \* the slam_msgs::msg::KeyFrame of line 123
    mapDataMsg,     \* the message under construction: graph and nodes
    trackedMapPoints, \* getCurrentMapPoints' vector of points (line 95)
    \* ---- the odometry thread (getMapToOdomTF) ----
    pcOdom, nOdoms,
    tf              \* the caller's TransformStamped

engineVars == <<liveMaps, initKFid, mapKFs, kfMap, kfPose, curMap, nNextId, nMaps,
                kfPoints, badPts, nPoints>>
tableVars == <<orbAtlas_, allKFs_, mapReferencePoses_, latestTrackedPose_, hasTracked_>>
bufVars == <<imuBuf_, bufMutex_>>
imuVars == <<pcImu, msgIMU, nArrived>>
trackLocals == <<inertial, frameStamp, sawEmpty, vImuMeas, Tcw,
                 currentTrackingState, mapsList, c, mpIdKFs, mi>>
trackVars == <<pcTrack, nFrames, retTrack, diag, mergeDetected, trackLocals>>
snapLocals == <<currentMapKFOnly, includeMapPoints, kFIDforMapPoints, vKeyFrames,
                itValid, it, mapDataMsg, vPts, jt, pushedKf>>
snapVars == <<pcSnap, nSnaps, snapLocals, trackedMapPoints>>
odomVars == <<pcOdom, nOdoms, tf>>
vars == <<supply, engineVars, engineImuLog, tableVars, bufVars, mapDataMutex_,
          crashed, pcDtor, imuVars, trackVars, snapVars, odomVars>>

\* What no step of the engine changes.
EngineOthers == <<supply, pcDtor, engineImuLog, tableVars, bufVars, mapDataMutex_, crashed,
                  imuVars, trackVars, snapVars, odomVars>>
\* What no step of handleIMU changes.
ImuOthers == <<supply, pcDtor, engineVars, engineImuLog, tableVars, mapDataMutex_, crashed,
               trackVars, snapVars, odomVars>>
\* What no step of a tracking call changes.
TrackOthers == <<supply, pcDtor, engineVars, mapDataMutex_, imuVars, pcSnap, nSnaps,
                 currentMapKFOnly, includeMapPoints, kFIDforMapPoints, vKeyFrames,
                 it, mapDataMsg, vPts, jt, pushedKf, trackedMapPoints, odomVars>>
\* What no step of mapDataToMsg changes.
SnapOthers == <<supply, pcDtor, engineVars, engineImuLog, orbAtlas_, latestTrackedPose_,
                hasTracked_, bufVars, imuVars, trackVars, odomVars,
                trackedMapPoints>>
\* What no step of getCurrentMapPoints changes.
PointsOthers == <<supply, pcDtor, engineVars, engineImuLog, orbAtlas_,
                  latestTrackedPose_, hasTracked_, bufVars, mapDataMutex_, imuVars,
                  trackVars, odomVars, currentMapKFOnly, includeMapPoints,
                  kFIDforMapPoints, itValid, mapDataMsg, pushedKf>>
\* What no step of getMapToOdomTF changes.
OdomOthers == <<supply, pcDtor, engineVars, engineImuLog, tableVars, bufVars, mapDataMutex_,
                crashed, imuVars, trackVars, snapVars>>

\* The process runs.
Alive == ~crashed
\* The destructor has not been called: mSLAM_ holds the engine, which runs.
EngineHeld == pcDtor = "idle"

(***************************************************************************)
(* The state after construction (lines 10-33): the engine has just been    *)
(* created and holds no initialised map, the tables and the queue are      *)
(* empty, no mutex is held.  orbAtlas_ is not set by the constructor, and  *)
(* latestTrackedPose_ is a default-constructed Eigen::Affine3d, whose      *)
(* coefficients are not initialised.                                       *)
(***************************************************************************)
Init ==
    /\ supply \in Supplies
    /\ liveMaps = {}
    /\ initKFid = [m \in MapIds |-> 0]
    /\ mapKFs = [m \in MapIds |-> {}]
    /\ kfMap = [k \in KFIds |-> NoMap]
    /\ kfPose = [k \in KFIds |-> [R |-> 1, t |-> 0]]
    /\ curMap = NoMap
    /\ nNextId = 0
    /\ nMaps = 0
    /\ kfPoints = [k \in KFIds |-> {}]
    /\ badPts = {}
    /\ nPoints = 0
    /\ engineImuLog = <<>>
    /\ orbAtlas_ = FALSE
    /\ allKFs_ = EmptyMap
    /\ mapReferencePoses_ = EmptyMap
    /\ latestTrackedPose_ = Indeterminate
    /\ hasTracked_ = FALSE
    /\ imuBuf_ = <<>>
    /\ bufMutex_ = "free"
    /\ mapDataMutex_ = "free"
    /\ crashed = FALSE
    /\ pcDtor = "idle"
    /\ pcImu = "idle"
    /\ msgIMU = [id |-> 0, t |-> 0]
    /\ nArrived = 0
    /\ pcTrack = "idle"
    /\ nFrames = 0
    /\ inertial = FALSE
    /\ sawEmpty = FALSE
    /\ mergeDetected = FALSE
    /\ frameStamp = [rgb |-> 0, d |-> 0]
    /\ vImuMeas = <<>>
    /\ Tcw = CallerTcw
    /\ currentTrackingState = 0
    /\ mapsList = <<>>
    /\ c = 0
    /\ mpIdKFs = EmptyMap
    /\ mi = 0
    /\ retTrack = "none"
    /\ diag = ""
    /\ pcSnap = "idle"
    /\ nSnaps = 0
    /\ currentMapKFOnly = FALSE
    /\ includeMapPoints = FALSE
    /\ kFIDforMapPoints = <<>>
    /\ vKeyFrames = <<>>
    /\ itValid = TRUE
    /\ it = 0
    /\ vPts = <<>>
    /\ jt = 0
    /\ pushedKf = EmptyKf
    /\ mapDataMsg = EmptyMsg
    /\ trackedMapPoints = <<>>
    /\ pcOdom = "idle"
    /\ nOdoms = 0
    /\ tf = CallerTF

(***************************************************************************)
(* The engine.  A map is created together with its first keyframe, whose   *)
(* identifier is the map's initKFid (Atlas::CreateNewMap followed by the   *)
(* map's initialisation inside a TrackRGBD call); keyframes are added to   *)
(* the current map, culled (never a map's initial keyframe) and moved to   *)
(* the surviving map by a merge, which drops the absorbed map from the     *)
(* atlas.  A culled keyframe object stays allocated, so a pointer to it    *)
(* stays valid.                                                            *)
(***************************************************************************)
EngineNewMap ==
    /\ Alive
    /\ EngineHeld
    /\ pcTrack = "in_engine"
    /\ nMaps < supply.maps
    /\ nNextId < supply.kfs
    /\ \E p \in PosesUpTo(supply.poses) :
        LET m == nMaps + 1
            k == nNextId
        IN  /\ liveMaps' = liveMaps \cup {m}
            /\ initKFid' = [initKFid EXCEPT ![m] = k]
            /\ mapKFs' = [mapKFs EXCEPT ![m] = {k}]
            /\ kfMap' = [kfMap EXCEPT ![k] = m]
            /\ kfPose' = [kfPose EXCEPT ![k] = p]
            /\ curMap' = m
            /\ nNextId' = k + 1
            /\ nMaps' = m
    /\ UNCHANGED <<kfPoints, badPts, nPoints>>
    /\ UNCHANGED EngineOthers

EngineNewKeyFrame ==
    /\ Alive
    /\ EngineHeld
    /\ curMap \in liveMaps
    /\ nNextId < supply.kfs
    /\ \E p \in PosesUpTo(supply.poses) :
        LET k == nNextId
        IN  /\ mapKFs' = [mapKFs EXCEPT ![curMap] = @ \cup {k}]
            /\ kfMap' = [kfMap EXCEPT ![k] = curMap]
            /\ kfPose' = [kfPose EXCEPT ![k] = p]
            /\ nNextId' = k + 1
    /\ UNCHANGED <<liveMaps, initKFid, curMap, nMaps, kfPoints, badPts, nPoints>>
    /\ UNCHANGED EngineOthers

EngineCullKeyFrame ==
    /\ Alive
    /\ EngineHeld
    /\ \E m \in liveMaps : \E k \in mapKFs[m] :
        /\ k # initKFid[m]
        /\ mapKFs' = [mapKFs EXCEPT ![m] = @ \ {k}]
    /\ UNCHANGED <<liveMaps, initKFid, kfMap, kfPose, curMap, nNextId, nMaps,
                   kfPoints, badPts, nPoints>>
    /\ UNCHANGED EngineOthers

EngineMergeMaps ==
    /\ Alive
    /\ EngineHeld
    /\ curMap \in liveMaps
    /\ \E into \in liveMaps \ {curMap} :
        /\ mapKFs' = [mapKFs EXCEPT ![into] = @ \cup mapKFs[curMap],
                                    ![curMap] = {}]
        /\ kfMap' = [k \in KFIds |->
                        IF k \in mapKFs[curMap] THEN into ELSE kfMap[k]]
        /\ liveMaps' = liveMaps \ {curMap}
        /\ curMap' = into
    /\ UNCHANGED <<initKFid, kfPose, nNextId, nMaps, kfPoints, badPts, nPoints>>
    /\ UNCHANGED EngineOthers

\* A keyframe of the atlas observes a new map point.
EngineNewMapPoint ==
    /\ Alive
    /\ EngineHeld
    /\ nPoints < supply.points
    /\ \E m \in liveMaps : \E k \in mapKFs[m] :
        kfPoints' = [kfPoints EXCEPT ![k] = @ \cup {nPoints + 1}]
    /\ nPoints' = nPoints + 1
    /\ UNCHANGED <<liveMaps, initKFid, mapKFs, kfMap, kfPose, curMap, nNextId,
                   nMaps, badPts>>
    /\ UNCHANGED EngineOthers

\* The engine retires a map point: its isBad() turns true.
EngineBadMapPoint ==
    /\ Alive
    /\ EngineHeld
    /\ \E q \in (1..nPoints) \ badPts : badPts' = badPts \cup {q}
    /\ UNCHANGED <<liveMaps, initKFid, mapKFs, kfMap, kfPose, curMap, nNextId,
                   nMaps, kfPoints, nPoints>>
    /\ UNCHANGED EngineOthers

Engine ==
    \/ EngineNewMap \/ EngineNewKeyFrame \/ EngineCullKeyFrame \/ EngineMergeMaps
    \/ EngineNewMapPoint \/ EngineBadMapPoint

(***************************************************************************)
(* handleIMU (lines 217-222), one step per statement.                      *)
(***************************************************************************)
\* The executor delivers an IMU message; the callback is about to lock.
handleIMU_call ==
    /\ Alive
    /\ pcDtor # "done"
    /\ pcImu = "idle"
    /\ nArrived < supply.samples
    /\ \E t \in StampsUpTo(supply.stamps) :
        /\ msgIMU' = [id |-> nArrived + 1, t |-> t]
        /\ nArrived' = nArrived + 1
    /\ pcImu' = "lock"
    /\ UNCHANGED <<ImuOthers, bufVars>>

\* bufMutex_.lock()
handleIMU_lock ==
    /\ Alive
    /\ pcImu = "lock"
    /\ bufMutex_ = "free"
    /\ bufMutex_' = "imu"
    /\ pcImu' = "push"
    /\ UNCHANGED <<ImuOthers, imuBuf_, msgIMU, nArrived>>

\* imuBuf_.push(msgIMU)
handleIMU_push ==
    /\ Alive
    /\ pcImu = "push"
    /\ imuBuf_' = Append(imuBuf_, msgIMU)
    /\ pcImu' = "unlock"
    /\ UNCHANGED <<ImuOthers, bufMutex_, msgIMU, nArrived>>

\* bufMutex_.unlock()
handleIMU_unlock ==
    /\ Alive
    /\ pcImu = "unlock"
    /\ bufMutex_' = "free"
    /\ pcImu' = "idle"
    /\ UNCHANGED <<ImuOthers, imuBuf_, msgIMU, nArrived>>

handleIMU == handleIMU_call \/ handleIMU_lock \/ handleIMU_push \/ handleIMU_unlock

(***************************************************************************)
(* Pure parts of the tracking path.                                        *)
(***************************************************************************)
\* Lines 253-265: the drain loop.  Pops messages off the front of the queue
\* while the front's stamp is <= lim; gives what was collected and what is left.
\* A drain that stops at the first sample stamped at the frame's time.
RECURSIVE DrainLoop_strict(_, _, _)
DrainLoop_strict(buf, lim, acc) ==
    IF buf # <<>> /\ Head(buf).t < lim
    THEN DrainLoop_strict(Tail(buf), lim, Append(acc, Head(buf)))
    ELSE [collected |-> acc, rest |-> buf]

\* A drain that copies the samples out and pops nothing.
DrainLoop_noPop(buf, lim, acc) ==
    [collected |-> acc \o SelectSeq(buf, LAMBDA m : m.t <= lim), rest |-> buf]

RECURSIVE DrainLoop(_, _, _)
DrainLoop(buf, lim, acc) ==
    IF buf # <<>> /\ Head(buf).t <= lim
    THEN DrainLoop(Tail(buf), lim, Append(acc, Head(buf)))
    ELSE [collected |-> acc, rest |-> buf]

\* Line 257: std::min(stampToSec(msgRGB stamp), stampToSec(msgD stamp)).
DrainLimit(fs) == Min(fs.rgb, fs.d)

\* Lines 63-73: the orders std::sort may leave the maps in: every arrangement
\* of the atlas's maps that ascends by GetInitKFid().
SortedByInitKFid(ms) ==
    {l \in [1..Cardinality(ms) -> ms] :
        /\ \A i, j \in DOMAIN l : i # j => l[i] # l[j]
        /\ \A i, j \in DOMAIN l : i < j => ~(initKFid[l[j]] < initKFid[l[i]])}

\* Lines 48-56: one iteration of makeKFIdPair's loop over the listed maps:
\* the keyframes map m reports now (GetAllKeyFrames, line 50) are written
\* into the index acc under construction (line 54).  A keyframe pointer is
\* written as the keyframe's identifier.
\* An index that keeps what allKFs_ held and adds the map's keyframes.
makeKFIdPair_historical(acc, m) ==
    [k \in (DOMAIN acc) \cup (DOMAIN allKFs_) \cup mapKFs[m] |->
        IF k \in mapKFs[m] THEN k
        ELSE IF k \in DOMAIN acc THEN acc[k] ELSE allKFs_[k]]

makeKFIdPair(acc, m) ==
    [k \in (DOMAIN acc) \cup mapKFs[m] |-> IF k \in mapKFs[m] THEN k ELSE acc[k]]

\* std::map<Map*, Affine3d>::operator[] used as an rvalue: the table after the
\* access and the value read.  An absent key is inserted with a
\* default-constructed Eigen::Affine3d, whose coefficients are not initialised.
Lookup(tbl, k) ==
    IF k \in DOMAIN tbl
    THEN [tbl |-> tbl, val |-> tbl[k]]
    ELSE [tbl |-> Put(tbl, k, Indeterminate), val |-> Indeterminate]

(***************************************************************************)
(* Unsynchronised access.  calculateReferencePoses and correctTrackedPose  *)
(* take no lock, and the queries take none that the tracking thread takes: *)
(* when the next statement of the tracking thread and the next statement   *)
(* of the query thread both work on the same std::map, the two may run at  *)
(* the same time.  That is a data race, undefined behaviour; the outcomes  *)
(* the build produces are the result of one access after the other, a      *)
(* fault inside the red-black tree (SIGSEGV in _Rb_tree_insert_and_        *)
(* rebalance, abort in free()), and the loss of the written value to the   *)
(* default-constructed node the other thread inserts for the same key.     *)
(***************************************************************************)
\* The tracking thread's next statement works on mapReferencePoses_ (lines
\* 71, 83, 88 and 150).
TrackAtPoses ==
    \/ pcTrack = "r_clear"
    \/ pcTrack = "r_loop" /\ c < Len(mapsList)
    \/ pcTrack = "correct"
\* The tracking thread's next statement replaces allKFs_ (line 74).
TrackAtIndex == pcTrack = "r_index"
\* The destructor's next statement is mapReferencePoses_.clear() (line 41).
DtorAtPoses == pcDtor = "d_poses"
\* The destructor's next statement is allKFs_.clear() (line 42).
DtorAtIndex == pcDtor = "d_index"
\* The query's next statement reaches line 103 or 132: a point that is not bad.
QueryAtPoint ==
    /\ pcSnap \in {"s_pt", "p_pt"}
    /\ jt < Len(vPts)
    /\ vPts[jt + 1] \notin badPts
\* The query thread's next statement evaluates mapReferencePoses_[...] (lines
\* 103, 132, 190 and 204).
QueryAtPoses ==
    \/ pcSnap = "s_graph" /\ it < Len(vKeyFrames)
    \/ QueryAtPoint
\* The query thread's next statement searches allKFs_ (lines 103, 125, 127
\* and 132).
QueryAtIndex ==
    \/ pcSnap = "s_nodes" /\ it < Len(kFIDforMapPoints)
    \/ pcSnap = "s_pts"
    \/ QueryAtPoint

\* mapReferencePoses_[k] read where racing tells whether the other thread may
\* be working on the table: the outcomes, each with the table it leaves, the
\* value read and whether the access faulted.
Lookups(tbl, k, racing) ==
    {[tbl |-> Lookup(tbl, k).tbl, val |-> Lookup(tbl, k).val, fault |-> FALSE]}
    \cup (IF racing
          THEN {[tbl |-> Put(tbl, k, Indeterminate), val |-> Indeterminate,
                 fault |-> FALSE],
                [tbl |-> tbl, val |-> Indeterminate, fault |-> TRUE]}
          ELSE {})
\* mapReferencePoses_[k] = v under the same conditions.
Writes(tbl, k, v, racing) ==
    {[tbl |-> Put(tbl, k, v), fault |-> FALSE]}
    \cup (IF racing
          THEN {[tbl |-> Put(tbl, k, Indeterminate), fault |-> FALSE],
                [tbl |-> tbl, fault |-> TRUE]}
          ELSE {})
\* latestTrackedPose_ read while line 149 may be writing new over old: either
\* value, or coefficients of both.
TornReads(old, new) ==
    IF old = Indeterminate \/ new = Indeterminate
    THEN {old, new, Indeterminate}
    ELSE {<<a[1], b[2]>> : a \in {old, new}, b \in {old, new}}

\* The values of the locals of a tracking call that is not running.  Tcw is
\* no local: it is the caller's object and keeps what the call left in it.
TrackLocalsReset ==
    /\ inertial' = FALSE
    /\ frameStamp' = [rgb |-> 0, d |-> 0]
    /\ sawEmpty' = FALSE
    /\ vImuMeas' = <<>>
    /\ currentTrackingState' = 0
    /\ mapsList' = <<>>
    /\ c' = 0
    /\ mpIdKFs' = EmptyMap
    /\ mi' = 0

\* return r, after printing the diagnostic d ("" when nothing is printed).
TrackReturn(r, d) ==
    /\ pcTrack' = "idle"
    /\ retTrack' = r
    /\ diag' = d
    /\ TrackLocalsReset

\* A gate that lets the call go on whatever the merge flag says.
MergeGate_open(merge) == FALSE

\* Lines 273-278 and 335-340: whether the call is abandoned for a merge.
MergeGate(merge) == merge

\* What GetTrackingState can return: the engine's eTrackingState, from
\* SYSTEM_NOT_READY (-1) to OK_KLT (5); 2 is OK.
TrackingStates == -1..5

\* Lines 286-301 and 347-362: the message the switch prints for a state
\* other than 2.  It has the cases 0, 1 and 3 and no default.
StateDiagnostic(st) ==
    CASE st = 0 -> "ORB-SLAM failed: No images yet."
      [] st = 1 -> "ORB-SLAM failed: Not initialized."
      [] st = 3 -> "ORB-SLAM failed: Tracking LOST."
      [] OTHER -> ""

(***************************************************************************)
(* trackRGBDi (lines 224-304) and trackRGBD (lines 306-363).               *)
(***************************************************************************)
\* Lines 226-250: take the atlas, decode the two images.  Once the destructor
\* has released the engine, mSLAM_ is null and line 226 faults.
trackRGBDi_start ==
    /\ Alive
    /\ pcDtor # "done"
    /\ pcTrack = "idle"
    /\ supply.endless \/ nFrames < supply.frames
    /\ nFrames' = (nFrames % supply.frames) + 1
    /\ Tcw' = CallerTcw
    /\ IF EngineHeld
       THEN /\ mergeDetected' = FALSE
            /\ orbAtlas_' = TRUE
            /\ \E rgb \in StampsUpTo(supply.stamps), d \in StampsUpTo(supply.stamps),
                  decoded \in BOOLEAN :
                IF decoded
                THEN /\ pcTrack' = "lock"
                     /\ retTrack' = "none"
                     /\ diag' = ""
                     /\ inertial' = TRUE
                     /\ frameStamp' = [rgb |-> rgb, d |-> d]
                     /\ UNCHANGED <<sawEmpty, vImuMeas, currentTrackingState,
                                    mapsList, c, mpIdKFs, mi>>
                ELSE TrackReturn("false", "decode")
            /\ UNCHANGED crashed
       ELSE /\ crashed' = TRUE
            /\ UNCHANGED <<mergeDetected, orbAtlas_, pcTrack, retTrack, diag,
                           inertial, frameStamp, sawEmpty, vImuMeas,
                           currentTrackingState, mapsList, c, mpIdKFs, mi>>
    /\ UNCHANGED <<TrackOthers, itValid, engineImuLog, allKFs_, mapReferencePoses_,
                   latestTrackedPose_, hasTracked_, bufVars>>

\* Line 252: bufMutex_.lock()
trackRGBDi_lock ==
    /\ Alive
    /\ pcTrack = "lock"
    /\ bufMutex_ = "free"
    /\ bufMutex_' = "track"
    /\ pcTrack' = "drain"
    /\ UNCHANGED <<TrackOthers, nFrames, itValid, engineImuLog, tableVars, imuBuf_, crashed,
                   retTrack, diag, mergeDetected, trackLocals>>

\* Lines 253-265: collect the buffered samples up to the frame's time.
trackRGBDi_drain ==
    /\ Alive
    /\ pcTrack = "drain"
    /\ LET r == DrainLoop(imuBuf_, DrainLimit(frameStamp), <<>>)
       IN  /\ vImuMeas' = r.collected
           /\ imuBuf_' = r.rest
    /\ sawEmpty' = (imuBuf_ = <<>>)
    /\ pcTrack' = "unlock"
    /\ UNCHANGED <<TrackOthers, nFrames, itValid, engineImuLog, tableVars, bufMutex_, crashed,
                   retTrack, diag, mergeDetected, inertial, frameStamp, Tcw,
                   currentTrackingState, mapsList, c, mpIdKFs, mi>>

\* A call that goes on to line 267 with the buffer lock still held.
trackRGBDi_unlock_keep ==
    /\ Alive
    /\ pcTrack = "unlock"
    /\ pcTrack' = "size"
    /\ UNCHANGED <<TrackOthers, nFrames, itValid, engineImuLog, tableVars, bufVars, crashed,
                   retTrack, diag, mergeDetected, trackLocals>>

\* Line 266: bufMutex_.unlock()
trackRGBDi_unlock ==
    /\ Alive
    /\ pcTrack = "unlock"
    /\ bufMutex_' = "free"
    /\ pcTrack' = "size"
    /\ UNCHANGED <<TrackOthers, nFrames, itValid, engineImuLog, tableVars, imuBuf_, crashed,
                   retTrack, diag, mergeDetected, trackLocals>>

\* Lines 267 and 303: if (imuBuf_.size() > 0) track, else return false; the
\* return of line 303 prints nothing.
trackRGBDi_size ==
    /\ Alive
    /\ pcTrack = "size"
    /\ IF Len(imuBuf_) > 0
       THEN /\ pcTrack' = "engine"
            /\ UNCHANGED <<retTrack, diag, trackLocals>>
       ELSE /\ TrackReturn("false", "")
            /\ UNCHANGED Tcw
    /\ UNCHANGED <<TrackOthers, nFrames, itValid, engineImuLog, tableVars, bufVars, crashed,
                   mergeDetected>>

\* Lines 308-330: decode the two images.  Only the colour image's stamp is
\* read by this variant (line 331).
trackRGBD_start ==
    /\ Alive
    /\ pcDtor # "done"
    /\ pcTrack = "idle"
    /\ supply.endless \/ nFrames < supply.frames
    /\ nFrames' = (nFrames % supply.frames) + 1
    /\ mergeDetected' = FALSE
    /\ Tcw' = CallerTcw
    /\ \E rgb \in StampsUpTo(supply.stamps), decoded \in BOOLEAN :
        IF decoded
        THEN /\ pcTrack' = "engine"
             /\ retTrack' = "none"
             /\ diag' = ""
             /\ inertial' = FALSE
             /\ frameStamp' = [rgb |-> rgb, d |-> 0]
             /\ UNCHANGED <<sawEmpty, vImuMeas, currentTrackingState,
                            mapsList, c, mpIdKFs, mi>>
        ELSE TrackReturn("false", "decode")
    /\ UNCHANGED <<TrackOthers, itValid, engineImuLog, tableVars, bufVars, crashed>>

\* Lines 270 and 332, entry of mSLAM_->TrackRGBD: the images, the stamp and,
\* in inertial mode, the collected samples pass to the engine.  Once the
\* destructor has released the engine, mSLAM_ is null and the call faults.
TrackRGBD_call ==
    /\ Alive
    /\ pcTrack = "engine"
    /\ IF EngineHeld
       THEN /\ pcTrack' = "in_engine"
            /\ engineImuLog' =
                  IF inertial
                  THEN engineImuLog \o
                       [i \in 1..Len(vImuMeas) |->
                          [id |-> vImuMeas[i].id, t |-> vImuMeas[i].t,
                           limit |-> DrainLimit(frameStamp), call |-> nFrames]]
                  ELSE engineImuLog
            /\ UNCHANGED crashed
       ELSE /\ crashed' = TRUE
            /\ UNCHANGED <<pcTrack, engineImuLog>>
    /\ UNCHANGED <<TrackOthers, nFrames, itValid, tableVars, bufVars, retTrack,
                   diag, mergeDetected, trackLocals>>

\* Lines 270 and 332, return of mSLAM_->TrackRGBD: the pose the engine
\* returns is assigned to the caller's Tcw, before the tracking state and the
\* merge flag are read.  A call that is inside the engine when the destructor
\* releases it runs on a destroyed object: it faults or returns.
TrackRGBD_return ==
    /\ Alive
    /\ pcTrack = "in_engine"
    /\ \/ /\ \E p \in PosesUpTo(supply.poses) : Tcw' = p
          /\ pcTrack' = "state"
          /\ UNCHANGED crashed
       \/ /\ ~EngineHeld
          /\ crashed' = TRUE
          /\ UNCHANGED <<pcTrack, Tcw>>
    /\ UNCHANGED <<TrackOthers, nFrames, itValid, engineImuLog, tableVars,
                   bufVars, retTrack, diag, mergeDetected, inertial, frameStamp,
                   sawEmpty, vImuMeas, currentTrackingState, mapsList, c,
                   mpIdKFs, mi>>

\* Lines 271 and 333: currentTrackingState = mSLAM_->GetTrackingState().  The
\* code receives an int and checks no range.  The engine reports state 2 (OK)
\* only when its current map is initialised.  With the engine released,
\* mSLAM_ is null and the call faults.
GetTrackingState ==
    /\ Alive
    /\ pcTrack = "state"
    /\ IF EngineHeld
       THEN /\ \E st \in TrackingStates :
                 /\ st = 2 => curMap \in liveMaps
                 /\ currentTrackingState' = st
            /\ pcTrack' = "gate"
            /\ UNCHANGED crashed
       ELSE /\ crashed' = TRUE
            /\ UNCHANGED <<pcTrack, currentTrackingState>>
    /\ UNCHANGED <<TrackOthers, nFrames, itValid, engineImuLog, tableVars,
                   bufVars, retTrack, diag, mergeDetected, inertial, frameStamp,
                   sawEmpty, vImuMeas, Tcw, mapsList, c, mpIdKFs, mi>>

\* Lines 272-301 and 334-362: the loop closer is taken from mSLAM_ (a fault
\* once the engine is released) and its merge flag read; a merge in progress
\* ends the call with "Waiting for merge to finish."; state 2 goes on to the
\* recompute; every other state returns false, with the diagnostic of the
\* switch for 0, 1 and 3 and silently for the rest.
track_mergeGate ==
    /\ Alive
    /\ pcTrack = "gate"
    /\ IF EngineHeld
       THEN /\ \E mg \in BOOLEAN :
                 /\ mergeDetected' = mg
                 /\ IF MergeGate(mg)
                    THEN TrackReturn("false", "Waiting for merge to finish.")
                    ELSE IF currentTrackingState = 2
                         THEN /\ pcTrack' = "r_clear"
                              /\ UNCHANGED <<retTrack, diag, inertial, frameStamp,
                                             sawEmpty, vImuMeas,
                                             currentTrackingState, mapsList, c,
                                             mpIdKFs, mi>>
                         ELSE TrackReturn("false",
                                          StateDiagnostic(currentTrackingState))
            /\ UNCHANGED crashed
       ELSE /\ crashed' = TRUE
            /\ UNCHANGED <<mergeDetected, pcTrack, retTrack, diag, inertial,
                           frameStamp, sawEmpty, vImuMeas, currentTrackingState,
                           mapsList, c, mpIdKFs, mi>>
    /\ UNCHANGED <<TrackOthers, nFrames, itValid, engineImuLog, tableVars,
                   bufVars, Tcw>>

(***************************************************************************)
(* calculateReferencePoses (lines 61-91), called at lines 281 and 343.     *)
(***************************************************************************)
\* A pass that starts from the table the previous pass left.
calculateReferencePoses_noClear ==
    /\ Alive
    /\ pcTrack = "r_clear"
    /\ pcTrack' = "r_maps"
    /\ UNCHANGED <<TrackOthers, nFrames, itValid, engineImuLog, tableVars, bufVars,
                   crashed, retTrack, diag, mergeDetected, trackLocals>>

\* Line 71: mapReferencePoses_.clear()
calculateReferencePoses_clear ==
    /\ Alive
    /\ pcTrack = "r_clear"
    /\ \/ /\ mapReferencePoses_' = EmptyMap
          /\ pcTrack' = "r_maps"
          /\ UNCHANGED crashed
       \/ /\ QueryAtPoses \/ DtorAtPoses
          /\ crashed' = TRUE
          /\ UNCHANGED <<mapReferencePoses_, pcTrack>>
    /\ UNCHANGED <<TrackOthers, nFrames, itValid, engineImuLog, orbAtlas_, allKFs_,
                   latestTrackedPose_, hasTracked_, bufVars, retTrack, diag,
                   mergeDetected, trackLocals>>

\* The query thread is walking allKFs_ with a live iterator (lines 185-195).
WalksIndex == pcSnap = "s_graph" /\ ~currentMapKFOnly

\* Lines 72-73 and 47: the atlas lists its maps (GetAllMaps), they are
\* sorted, and makeKFIdPair is entered with an empty index.  orbAtlas_ is set
\* by trackRGBDi only (line 226): through trackRGBD alone the pointer has
\* never been assigned and the call through it faults.
calculateReferencePoses_maps ==
    /\ Alive
    /\ pcTrack = "r_maps"
    /\ \/ /\ orbAtlas_
          /\ \E ml \in SortedByInitKFid(liveMaps) :
                /\ mapsList' = ml
                /\ pcTrack' = IF ml = <<>> THEN "r_index" ELSE "r_pair"
          /\ mpIdKFs' = EmptyMap
          /\ mi' = 0
          /\ UNCHANGED crashed
       \/ /\ ~orbAtlas_
          /\ crashed' = TRUE
          /\ UNCHANGED <<mapsList, mpIdKFs, mi, pcTrack>>
    /\ UNCHANGED <<TrackOthers, nFrames, itValid, engineImuLog, tableVars, bufVars,
                   retTrack, diag, inertial, frameStamp, vImuMeas, Tcw,
                   currentTrackingState, sawEmpty, mergeDetected, c>>

\* Lines 48-56: the next listed map's keyframes go into the index under
\* construction.  The engine runs between two iterations: a map listed at
\* line 72 is read as it is when its turn comes.  After the last map the
\* index is returned (line 58).
makeKFIdPair_map ==
    /\ Alive
    /\ pcTrack = "r_pair"
    /\ mi < Len(mapsList)
    /\ mpIdKFs' = makeKFIdPair(mpIdKFs, mapsList[mi + 1])
    /\ mi' = mi + 1
    /\ pcTrack' = IF mi + 1 = Len(mapsList) THEN "r_index" ELSE "r_pair"
    /\ UNCHANGED <<TrackOthers, nFrames, itValid, engineImuLog, tableVars, bufVars,
                   crashed, retTrack, diag, inertial, frameStamp, vImuMeas, Tcw,
                   currentTrackingState, sawEmpty, mergeDetected, mapsList, c>>

\* Line 74: allKFs_ = the index makeKFIdPair returned.
calculateReferencePoses_index ==
    /\ Alive
    /\ pcTrack = "r_index"
    /\ \/ /\ allKFs_' = mpIdKFs
          /\ itValid' = (itValid /\ ~WalksIndex)
          /\ c' = 0
          /\ pcTrack' = "r_loop"
          /\ UNCHANGED crashed
       \/ /\ QueryAtIndex \/ DtorAtIndex
          /\ crashed' = TRUE
          /\ UNCHANGED <<allKFs_, c, pcTrack, itValid>>
    /\ UNCHANGED <<TrackOthers, nFrames, engineImuLog, orbAtlas_, mapReferencePoses_,
                   latestTrackedPose_, hasTracked_, bufVars, retTrack, diag, inertial,
                   frameStamp, vImuMeas, Tcw, currentTrackingState, sawEmpty,
                   mergeDetected, mapsList, mpIdKFs, mi>>

\* Lines 77-84: the reference pose of a map whose initKFid is 0.
RootReferencePose(m) == Compose(poseOffset, se3ToAffine(kfPose[initKFid[m]]))

\* Lines 75-90: one iteration of the loop over the sorted maps, or its exit.
\* Line 87 reads allKFs_[initKFid - 1] with operator[]: an absent identifier
\* is inserted with a null keyframe pointer, and GetPose() through the null
\* pointer faults.
calculateReferencePoses_loop ==
    /\ Alive
    /\ pcTrack = "r_loop"
    /\ IF c < Len(mapsList)
       THEN LET m == mapsList[c + 1]
                parent == initKFid[m] - 1
            IN  IF initKFid[m] = 0
                THEN \E w \in Writes(mapReferencePoses_, m, RootReferencePose(m),
                                     QueryAtPoses \/ DtorAtPoses) :
                     /\ mapReferencePoses_' = w.tbl
                     /\ crashed' = w.fault
                     /\ c' = IF w.fault THEN c ELSE c + 1
                     /\ UNCHANGED <<allKFs_, pcTrack>>
                ELSE IF parent \in DOMAIN allKFs_ /\ allKFs_[parent] # NullKF
                THEN \E r \in Lookups(mapReferencePoses_, kfMap[allKFs_[parent]],
                                      QueryAtPoses \/ DtorAtPoses) :
                     \E w \in Writes(r.tbl, m,
                                     transformPoseWithReference(
                                         r.val, kfPose[allKFs_[parent]]),
                                     QueryAtPoses \/ DtorAtPoses) :
                     \E ix \in (IF DtorAtIndex THEN BOOLEAN ELSE {FALSE}) :
                     LET fault == r.fault \/ w.fault \/ ix
                     IN  /\ mapReferencePoses_' =
                                IF fault THEN mapReferencePoses_ ELSE w.tbl
                         /\ crashed' = fault
                         /\ c' = IF fault THEN c ELSE c + 1
                         /\ UNCHANGED <<allKFs_, pcTrack>>
                ELSE /\ allKFs_' = Put(allKFs_, parent, NullKF)
                     /\ crashed' = TRUE
                     /\ UNCHANGED <<mapReferencePoses_, c, pcTrack>>
       ELSE /\ pcTrack' = "correct"
            /\ UNCHANGED <<mapReferencePoses_, allKFs_, c, crashed>>
    /\ UNCHANGED <<TrackOthers, nFrames, itValid, engineImuLog, orbAtlas_, latestTrackedPose_,
                   hasTracked_, bufVars, retTrack, diag, inertial, frameStamp,
                   vImuMeas, Tcw, currentTrackingState, mapsList, sawEmpty,
                   mergeDetected, mpIdKFs, mi>>

\* Whether a successful call of this mode sets hasTracked_: trackRGBDi does
\* (line 283), trackRGBD does not (lines 343-345).
SetsHasTracked(mode) == mode

\* correctTrackedPose (lines 147-151) and the return of the tracking call
\* (lines 282-284 and 344-345).
correctTrackedPose ==
    /\ Alive
    /\ pcTrack = "correct"
    /\ \E r \in Lookups(mapReferencePoses_, curMap, QueryAtPoses \/ DtorAtPoses) :
        IF r.fault
        THEN /\ crashed' = TRUE
             /\ UNCHANGED <<mapReferencePoses_, latestTrackedPose_, hasTracked_,
                            pcTrack, retTrack, diag, trackLocals>>
        ELSE /\ mapReferencePoses_' = r.tbl
             /\ latestTrackedPose_' = transformPoseWithReference(r.val, Tcw)
             /\ hasTracked_' = IF SetsHasTracked(inertial) THEN TRUE ELSE hasTracked_
             /\ TrackReturn("true", "")
             /\ UNCHANGED <<Tcw, crashed>>
    /\ UNCHANGED <<TrackOthers, nFrames, itValid, engineImuLog, orbAtlas_, allKFs_, bufVars,
                   mergeDetected>>

(***************************************************************************)
(* mapDataToMsg (lines 111-145) with getOptimizedPoseGraph (lines 181-215). *)
(***************************************************************************)
\* The orders in which the elements of a finite set may be listed.
Orders(S) ==
    {l \in [1..Cardinality(S) -> S] : \A a, b \in DOMAIN l : a # b => l[a] # l[b]}

\* The elements of a finite set of integers in ascending order: the order in
\* which a std::map is walked.
RECURSIVE Ascending(_)
Ascending(S) ==
    IF S = {} THEN <<>>
    ELSE LET lo == CHOOSE x \in S : \A y \in S : x <= y
         IN  <<lo>> \o Ascending(S \ {lo})

\* The requests for map points explored: identifier MaxKF is never a keyframe.
RequestLists == {<<1, 0>>, <<0, MaxKF, 1>>}

SnapLocalsReset ==
    /\ currentMapKFOnly' = FALSE
    /\ includeMapPoints' = FALSE
    /\ kFIDforMapPoints' = <<>>
    /\ vKeyFrames' = <<>>
    /\ itValid' = TRUE
    /\ it' = 0
    /\ vPts' = <<>>
    /\ jt' = 0
    /\ pushedKf' = EmptyKf
    /\ mapDataMsg' = EmptyMsg

\* A caller passes a fresh message and its request.
mapDataToMsg_call ==
    /\ Alive
    /\ pcDtor # "done"
    /\ pcSnap = "idle"
    /\ nSnaps < supply.snaps
    /\ nSnaps' = nSnaps + 1
    /\ \E cur \in BOOLEAN, pts \in BOOLEAN, ids \in RequestLists :
        /\ currentMapKFOnly' = cur
        /\ includeMapPoints' = pts
        /\ kFIDforMapPoints' = IF pts THEN ids ELSE <<>>
    /\ mapDataMsg' = EmptyMsg
    /\ pcSnap' = "s_lock"
    /\ UNCHANGED <<SnapOthers, allKFs_, mapReferencePoses_, mapDataMutex_,
                   crashed, vKeyFrames, itValid, it, vPts, jt, pushedKf>>

\* Line 113: mapDataMutex_.lock()
mapDataToMsg_lock ==
    /\ Alive
    /\ pcSnap = "s_lock"
    /\ mapDataMutex_ = "free"
    /\ mapDataMutex_' = "snap"
    /\ pcSnap' = "s_begin"
    /\ UNCHANGED <<SnapOthers, allKFs_, mapReferencePoses_, crashed, nSnaps,
                   snapLocals>>

\* Lines 183-185 and 199: the loop of getOptimizedPoseGraph starts, over
\* allKFs_ itself or over the current map's keyframes as the engine lists them.
getOptimizedPoseGraph_begin ==
    /\ Alive
    /\ pcSnap = "s_begin"
    /\ IF ~currentMapKFOnly
       THEN /\ vKeyFrames' = Ascending(DOMAIN allKFs_)
            /\ pcSnap' = "s_graph"
            /\ UNCHANGED crashed
       ELSE IF orbAtlas_
            THEN /\ vKeyFrames' \in
                        Orders(IF curMap \in MapIds THEN mapKFs[curMap] ELSE {})
                 /\ pcSnap' = "s_graph"
                 /\ UNCHANGED crashed
            ELSE /\ crashed' = TRUE
                 /\ UNCHANGED <<vKeyFrames, pcSnap>>
    /\ itValid' = TRUE
    /\ it' = 0
    /\ UNCHANGED <<SnapOthers, allKFs_, mapReferencePoses_, mapDataMutex_,
                   nSnaps, currentMapKFOnly, includeMapPoints, kFIDforMapPoints,
                   mapDataMsg, vPts, jt, pushedKf>>

\* Lines 185-195 and 202-213: one keyframe of the pose graph, or the loop's
\* end (lines 117-119).  A walk of allKFs_ whose nodes were freed by line 74
\* reads freed memory: it faults, or it still finds the old nodes.
getOptimizedPoseGraph_step ==
    /\ Alive
    /\ pcSnap = "s_graph"
    /\ \/ /\ ~itValid
          /\ crashed' = TRUE
          /\ UNCHANGED <<mapReferencePoses_, mapDataMsg, it, pcSnap>>
       \/ /\ it < Len(vKeyFrames)
          /\ LET kf == vKeyFrames[it + 1]
             IN  \E r \in Lookups(mapReferencePoses_, kfMap[kf],
                                  TrackAtPoses \/ DtorAtPoses) :
                 IF r.fault
                 THEN /\ crashed' = TRUE
                      /\ UNCHANGED <<mapReferencePoses_, mapDataMsg, it>>
                 ELSE /\ mapReferencePoses_' = r.tbl
                      /\ mapDataMsg' =
                            [mapDataMsg EXCEPT
                                !.poses = Append(@, transformPoseWithReference(
                                                        r.val, kfPose[kf])),
                                !.poses_id = Append(@, kf)]
                      /\ it' = it + 1
                      /\ UNCHANGED crashed
          /\ UNCHANGED pcSnap
       \/ /\ it >= Len(vKeyFrames)
          /\ pcSnap' = IF includeMapPoints THEN "s_nodes" ELSE "s_unlock"
          /\ it' = 0
          /\ UNCHANGED <<mapReferencePoses_, mapDataMsg, crashed>>
    /\ UNCHANGED <<SnapOthers, allKFs_, mapDataMutex_, nSnaps, currentMapKFOnly,
                   includeMapPoints, kFIDforMapPoints, vKeyFrames, itValid,
                   vPts, jt, pushedKf>>

\* Lines 103 and 132: mapReferencePoses_[allKFs_[id]->GetMap()] for a keyframe
\* the index holds: the outcomes of the read of the pose table, and a fault
\* when line 74 is replacing the index under the search.
PointLookups(tbl, k) ==
    Lookups(tbl, k, TrackAtPoses \/ DtorAtPoses)
    \cup (IF TrackAtIndex \/ DtorAtIndex
          THEN {[tbl |-> tbl, val |-> Indeterminate, fault |-> TRUE]}
          ELSE {})

\* Lines 102-103 and 131-132: map point q moved to the world frame.
WorldPoint(ref, q) ==
    transformPointWithReference(ref, vector3fORBToROS(GetWorldPos(q)))

\* Lines 121-125 and 138-142: the next requested identifier is searched in the
\* index with find(); an absent one is reported and skipped.  At the loop's
\* end the call goes on to line 144.
mapDataToMsg_node ==
    /\ Alive
    /\ pcSnap = "s_nodes"
    /\ IF it < Len(kFIDforMapPoints)
       THEN LET kFId == kFIDforMapPoints[it + 1]
            IN  \/ /\ IF kFId \in DOMAIN allKFs_
                      THEN /\ pushedKf' = [id |-> kFId, word_pts |-> <<>>]
                           /\ pcSnap' = "s_pts"
                           /\ UNCHANGED it
                      ELSE /\ it' = it + 1
                           /\ UNCHANGED <<pushedKf, pcSnap>>
                   /\ UNCHANGED crashed
                \/ /\ TrackAtIndex \/ DtorAtIndex
                   /\ crashed' = TRUE
                   /\ UNCHANGED <<pushedKf, pcSnap, it>>
       ELSE /\ pcSnap' = "s_unlock"
            /\ UNCHANGED <<pushedKf, it, crashed>>
    /\ UNCHANGED <<SnapOthers, allKFs_, mapReferencePoses_, mapDataMutex_, nSnaps,
                   currentMapKFOnly, includeMapPoints, kFIDforMapPoints,
                   vKeyFrames, itValid, vPts, jt, mapDataMsg>>

\* Line 127: allKFs_[kFId]->GetMapPoints().  The index is read again, with
\* operator[]: an identifier it no longer holds is inserted with a null
\* keyframe pointer, and the call through the null pointer faults.
mapDataToMsg_points ==
    /\ Alive
    /\ pcSnap = "s_pts"
    /\ LET kFId == pushedKf.id
       IN  \/ /\ kFId \in DOMAIN allKFs_
              /\ allKFs_[kFId] # NullKF
              /\ vPts' \in Orders(kfPoints[allKFs_[kFId]])
              /\ jt' = 0
              /\ pcSnap' = "s_pt"
              /\ UNCHANGED <<allKFs_, crashed>>
           \/ /\ ~(kFId \in DOMAIN allKFs_ /\ allKFs_[kFId] # NullKF)
              /\ allKFs_' = Put(allKFs_, kFId, NullKF)
              /\ crashed' = TRUE
              /\ UNCHANGED <<vPts, jt, pcSnap>>
           \/ /\ TrackAtIndex \/ DtorAtIndex
              /\ crashed' = TRUE
              /\ UNCHANGED <<allKFs_, vPts, jt, pcSnap>>
    /\ UNCHANGED <<SnapOthers, mapReferencePoses_, mapDataMutex_, nSnaps,
                   currentMapKFOnly, includeMapPoints, kFIDforMapPoints,
                   vKeyFrames, itValid, it, mapDataMsg, pushedKf>>

\* Lines 127-136: one map point of the keyframe, or the end of its points and
\* the push of the node.  For a point that is not bad line 132 reads the
\* index once more with operator[], then the pose table.
mapDataToMsg_point ==
    /\ Alive
    /\ pcSnap = "s_pt"
    /\ LET kFId == pushedKf.id
       IN  IF jt < Len(vPts)
           THEN /\ IF vPts[jt + 1] \in badPts
                   THEN /\ jt' = jt + 1
                        /\ UNCHANGED <<allKFs_, mapReferencePoses_, pushedKf,
                                       crashed>>
                   ELSE IF kFId \in DOMAIN allKFs_ /\ allKFs_[kFId] # NullKF
                   THEN \E r \in PointLookups(mapReferencePoses_,
                                              kfMap[allKFs_[kFId]]) :
                        IF r.fault
                        THEN /\ crashed' = TRUE
                             /\ UNCHANGED <<allKFs_, mapReferencePoses_, pushedKf,
                                            jt>>
                        ELSE /\ mapReferencePoses_' = r.tbl
                             /\ pushedKf' =
                                   [pushedKf EXCEPT !.word_pts =
                                       Append(@, WorldPoint(r.val, vPts[jt + 1]))]
                             /\ jt' = jt + 1
                             /\ UNCHANGED <<allKFs_, crashed>>
                   ELSE /\ allKFs_' = Put(allKFs_, kFId, NullKF)
                        /\ crashed' = TRUE
                        /\ UNCHANGED <<mapReferencePoses_, pushedKf, jt>>
                /\ UNCHANGED <<pcSnap, it, vPts, mapDataMsg>>
           ELSE /\ mapDataMsg' = [mapDataMsg EXCEPT !.nodes = Append(@, pushedKf)]
                /\ it' = it + 1
                /\ pcSnap' = "s_nodes"
                /\ vPts' = <<>>
                /\ jt' = 0
                /\ pushedKf' = EmptyKf
                /\ UNCHANGED <<allKFs_, mapReferencePoses_, crashed>>
    /\ UNCHANGED <<SnapOthers, mapDataMutex_, nSnaps, currentMapKFOnly,
                   includeMapPoints, kFIDforMapPoints, vKeyFrames, itValid>>

\* Line 144: mapDataMutex_.unlock()
mapDataToMsg_unlock ==
    /\ Alive
    /\ pcSnap = "s_unlock"
    /\ mapDataMutex_' = "free"
    /\ pcSnap' = "s_done"
    /\ UNCHANGED <<SnapOthers, allKFs_, mapReferencePoses_, crashed, nSnaps,
                   snapLocals>>

\* The call returns; the caller publishes the message.
mapDataToMsg_return ==
    /\ Alive
    /\ pcSnap = "s_done"
    /\ pcSnap' = "idle"
    /\ SnapLocalsReset
    /\ UNCHANGED <<SnapOthers, allKFs_, mapReferencePoses_, mapDataMutex_,
                   crashed, nSnaps>>

mapDataToMsg ==
    \/ mapDataToMsg_call \/ mapDataToMsg_lock \/ getOptimizedPoseGraph_begin
    \/ getOptimizedPoseGraph_step \/ mapDataToMsg_node \/ mapDataToMsg_points
    \/ mapDataToMsg_point \/ mapDataToMsg_unlock
    \/ mapDataToMsg_return

(***************************************************************************)
(* getCurrentMapPoints (lines 93-109), a query that takes no lock.         *)
(***************************************************************************)
\* Lines 95-96: the call starts its loop over orbAtlas_->GetAllKeyFrames(),
\* the current map's keyframes as the engine lists them.
getCurrentMapPoints_begin ==
    /\ Alive
    /\ pcDtor # "done"
    /\ pcSnap = "idle"
    /\ nSnaps < supply.snaps
    /\ nSnaps' = nSnaps + 1
    /\ trackedMapPoints' = <<>>
    /\ it' = 0
    /\ IF orbAtlas_
       THEN /\ vKeyFrames' \in
                    Orders(IF curMap \in MapIds THEN mapKFs[curMap] ELSE {})
            /\ pcSnap' = "p_loop"
            /\ UNCHANGED crashed
       ELSE /\ crashed' = TRUE
            /\ UNCHANGED <<vKeyFrames, pcSnap>>
    /\ UNCHANGED <<PointsOthers, allKFs_, mapReferencePoses_, vPts, jt>>

\* Lines 96-98: the next keyframe's GetMapPoints(), or the loop's end and
\* line 108.
getCurrentMapPoints_step ==
    /\ Alive
    /\ pcSnap = "p_loop"
    /\ IF it < Len(vKeyFrames)
       THEN /\ vPts' \in Orders(kfPoints[vKeyFrames[it + 1]])
            /\ jt' = 0
            /\ pcSnap' = "p_pt"
       ELSE /\ pcSnap' = "p_done"
            /\ UNCHANGED <<vPts, jt>>
    /\ UNCHANGED <<PointsOthers, allKFs_, mapReferencePoses_, trackedMapPoints,
                   it, crashed, nSnaps, vKeyFrames>>

\* Lines 98-106: one map point of the keyframe, or the end of its points.
\* For a point that is not bad line 103 reads allKFs_[KF->mnId] with
\* operator[]: an identifier the index does not hold is inserted with a null
\* keyframe pointer, and GetMap() through the null pointer faults.
getCurrentMapPoints_point ==
    /\ Alive
    /\ pcSnap = "p_pt"
    /\ LET KF == vKeyFrames[it + 1]
       IN  IF jt < Len(vPts)
           THEN /\ IF vPts[jt + 1] \in badPts
                   THEN /\ jt' = jt + 1
                        /\ UNCHANGED <<allKFs_, mapReferencePoses_,
                                       trackedMapPoints, crashed>>
                   ELSE IF KF \in DOMAIN allKFs_ /\ allKFs_[KF] # NullKF
                   THEN \E r \in PointLookups(mapReferencePoses_,
                                              kfMap[allKFs_[KF]]) :
                        IF r.fault
                        THEN /\ crashed' = TRUE
                             /\ UNCHANGED <<allKFs_, mapReferencePoses_,
                                            trackedMapPoints, jt>>
                        ELSE /\ mapReferencePoses_' = r.tbl
                             /\ trackedMapPoints' =
                                   Append(trackedMapPoints,
                                          WorldPoint(r.val, vPts[jt + 1]))
                             /\ jt' = jt + 1
                             /\ UNCHANGED <<allKFs_, crashed>>
                   ELSE /\ allKFs_' = Put(allKFs_, KF, NullKF)
                        /\ crashed' = TRUE
                        /\ UNCHANGED <<mapReferencePoses_, trackedMapPoints, jt>>
                /\ UNCHANGED <<pcSnap, it, vPts>>
           ELSE /\ it' = it + 1
                /\ pcSnap' = "p_loop"
                /\ vPts' = <<>>
                /\ jt' = 0
                /\ UNCHANGED <<allKFs_, mapReferencePoses_, trackedMapPoints,
                               crashed>>
    /\ UNCHANGED <<PointsOthers, nSnaps, vKeyFrames>>

\* The call returns; the caller publishes the cloud.
getCurrentMapPoints_return ==
    /\ Alive
    /\ pcSnap = "p_done"
    /\ pcSnap' = "idle"
    /\ trackedMapPoints' = <<>>
    /\ vKeyFrames' = <<>>
    /\ it' = 0
    /\ UNCHANGED <<PointsOthers, allKFs_, mapReferencePoses_, crashed, nSnaps,
                   vPts, jt>>

getCurrentMapPoints ==
    \/ getCurrentMapPoints_begin \/ getCurrentMapPoints_step
    \/ getCurrentMapPoints_point \/ getCurrentMapPoints_return

(***************************************************************************)
(* getMapToOdomTF (lines 153-179).                                         *)
(***************************************************************************)
\* A bridge that writes the transform whatever hasTracked_ says.
getMapToOdomTF_always ==
    /\ Alive
    /\ pcDtor # "done"
    /\ pcOdom = "idle"
    /\ nOdoms < supply.odoms
    /\ nOdoms' = nOdoms + 1
    /\ \E msgOdom \in PosesUpTo(supply.poses) :
        tf' = Compose(latestTrackedPose_, Inverse(se3ToAffine(msgOdom)))
    /\ pcOdom' = "done"
    /\ UNCHANGED OdomOthers

\* What line 167 may read as latestTrackedPose_.  Neither it nor line 149
\* holds a lock: when the tracking thread's next statement is the write of
\* line 149 the read may overlap it.
LatestTrackedPoseReads ==
    IF pcTrack = "correct"
    THEN UNION {TornReads(latestTrackedPose_,
                          transformPoseWithReference(r.val, Tcw)) :
                    r \in Lookups(mapReferencePoses_, curMap,
                                   QueryAtPoses \/ DtorAtPoses)}
    ELSE {latestTrackedPose_}

\* Lines 155-178: with hasTracked_, tf = latestTrackedPose_ * odom.inverse();
\* without it the caller's transform is left as it was.  hasTracked_ only
\* ever goes from false to true, so the test of line 155 and the read of line
\* 167 are taken as one step, at the time of the read.
getMapToOdomTF ==
    /\ Alive
    /\ pcDtor # "done"
    /\ pcOdom = "idle"
    /\ nOdoms < supply.odoms
    /\ nOdoms' = nOdoms + 1
    /\ \E msgOdom \in PosesUpTo(supply.poses) :
        IF hasTracked_
        THEN \E latest \in LatestTrackedPoseReads :
                tf' = Compose(latest, Inverse(se3ToAffine(msgOdom)))
        ELSE tf' = tf
    /\ pcOdom' = "done"
    /\ UNCHANGED OdomOthers

\* The caller broadcasts the transform and drops it.
getMapToOdomTF_return ==
    /\ Alive
    /\ pcOdom = "done"
    /\ pcOdom' = "idle"
    /\ tf' = CallerTF
    /\ UNCHANGED <<OdomOthers, nOdoms>>

OdomBridge == getMapToOdomTF \/ getMapToOdomTF_return

(***************************************************************************)
(* ~ORBSLAM3Interface (lines 35-43), one step per statement that works on  *)
(* what the other threads use.  Nothing in the object keeps the destructor *)
(* from running while a callback is inside one of its methods on another   *)
(* thread: the call goes on, on an engine that has been shut down and on   *)
(* tables that are being cleared.  The engine's objects (atlas, maps,      *)
(* keyframes, map points) are not freed by the release: ORB_SLAM3::System  *)
(* holds them by plain pointers it never deletes.                          *)
(***************************************************************************)
\* Some thread is inside a method of the object.
CallRunning ==
    \/ pcImu # "idle"
    \/ pcTrack # "idle"
    \/ pcSnap # "idle"
    \/ pcOdom # "idle"

\* Lines 38-40: mSLAM_->Shutdown(), mSLAM_.reset(), typeConversions_.reset().
\* The engine's threads stop and mSLAM_ is null from here on.
ORBSLAM3Interface_destructor ==
    /\ Alive
    /\ supply.dtor
    /\ pcDtor = "idle"
    /\ pcDtor' = "d_poses"
    /\ UNCHANGED <<supply, engineVars, engineImuLog, tableVars, bufVars,
                   mapDataMutex_, crashed, imuVars, trackVars, snapVars, odomVars>>

\* Line 41: mapReferencePoses_.clear()
ORBSLAM3Interface_destructor_poses ==
    /\ Alive
    /\ pcDtor = "d_poses"
    /\ \/ /\ mapReferencePoses_' = EmptyMap
          /\ pcDtor' = "d_index"
          /\ UNCHANGED crashed
       \/ /\ TrackAtPoses \/ QueryAtPoses
          /\ crashed' = TRUE
          /\ UNCHANGED <<mapReferencePoses_, pcDtor>>
    /\ UNCHANGED <<supply, engineVars, engineImuLog, orbAtlas_, allKFs_,
                   latestTrackedPose_, hasTracked_, bufVars, mapDataMutex_, imuVars,
                   trackVars, snapVars, odomVars>>

\* The tracking thread's next statement reads allKFs_ (line 87).
TrackReadsIndex == pcTrack = "r_loop" /\ c < Len(mapsList) /\ initKFid[mapsList[c + 1]] # 0

\* Line 42: allKFs_.clear(), and the end of the object's lifetime.
ORBSLAM3Interface_destructor_index ==
    /\ Alive
    /\ pcDtor = "d_index"
    /\ \/ /\ allKFs_' = EmptyMap
          /\ itValid' = (itValid /\ ~WalksIndex)
          /\ pcDtor' = "done"
          /\ UNCHANGED crashed
       \/ /\ TrackAtIndex \/ TrackReadsIndex \/ QueryAtIndex
          /\ crashed' = TRUE
          /\ UNCHANGED <<allKFs_, itValid, pcDtor>>
    /\ UNCHANGED <<supply, engineVars, engineImuLog, orbAtlas_, mapReferencePoses_,
                   latestTrackedPose_, hasTracked_, bufVars, mapDataMutex_, imuVars,
                   trackVars, pcSnap, nSnaps, currentMapKFOnly, includeMapPoints,
                   kFIDforMapPoints, vKeyFrames, it, mapDataMsg, vPts, jt,
                   pushedKf, trackedMapPoints, odomVars>>

\* A call still inside the object when its lifetime has ended works on
\* members that were destroyed: it goes on as on the cleared tables, or it
\* faults.
UseAfterDestruction ==
    /\ Alive
    /\ pcDtor = "done"
    /\ CallRunning
    /\ crashed' = TRUE
    /\ UNCHANGED <<supply, engineVars, engineImuLog, tableVars, bufVars,
                   mapDataMutex_, pcDtor, imuVars, trackVars, snapVars, odomVars>>

Destructor ==
    \/ ORBSLAM3Interface_destructor \/ ORBSLAM3Interface_destructor_poses
    \/ ORBSLAM3Interface_destructor_index \/ UseAfterDestruction

trackFrame ==
    \/ trackRGBDi_start \/ trackRGBDi_lock \/ trackRGBDi_drain
    \/ trackRGBDi_unlock \/ trackRGBDi_size \/ trackRGBD_start
    \/ TrackRGBD_call \/ TrackRGBD_return \/ GetTrackingState \/ track_mergeGate
    \/ calculateReferencePoses_clear \/ calculateReferencePoses_maps
    \/ makeKFIdPair_map \/ calculateReferencePoses_index
    \/ calculateReferencePoses_loop \/ correctTrackedPose

Next ==
    \/ Engine \/ handleIMU \/ trackFrame \/ mapDataToMsg \/ getCurrentMapPoints
    \/ OdomBridge \/ Destructor

Spec == Init /\ [][Next]_vars

\* The same program under the scheduling the code justifies: the tracking
\* thread, once it holds bufMutex_, runs lines 253-266 to the unlock (they
\* call nothing that blocks), and a handleIMU blocked in bufMutex_.lock()
\* gets the mutex if it is free and stays free.  Nothing is assumed of the
\* order in which a contended std::mutex is handed over: while image pairs
\* keep arriving the tracking thread may retake the mutex every time, and a
\* waiting handleIMU is then never served.  Nothing is assumed of the engine
\* either: its call may run for ever.
SpecLive ==
    /\ Spec
    /\ WF_vars(trackRGBDi_drain)
    /\ WF_vars(trackRGBDi_unlock)
    /\ WF_vars(handleIMU_lock)


(***************************************************************************)
(* Properties.                                                             *)
(***************************************************************************)
\* The query thread is inside mapDataToMsg's critical section (lines 113-144).
InSnapshot ==
    pcSnap \in {"s_begin", "s_graph", "s_nodes", "s_pts", "s_pt", "s_unlock"}

\* The tracking thread is inside calculateReferencePoses with the table
\* already cleared and not yet rebuilt (lines 72-90).
InRecompute == pcTrack \in {"r_maps", "r_pair", "r_index", "r_loop"}

\* C1: the snapshot holds one lock for its whole duration, so that a
\* recompute of the table never runs while a snapshot is being built.
C1_SnapshotExcludesRecompute == ~(InSnapshot /\ InRecompute)

\* C2: every access to the inertial buffer, the emptiness/size test of
\* trackRGBDi included, is made while the accessing thread holds bufMutex_;
\* the test never coincides with an append.
C2_BufferAccessUnderLock ==
    /\ pcImu = "push" => bufMutex_ = "imu"
    /\ pcTrack \in {"drain", "size"} => bufMutex_ = "track"
    /\ ~(pcTrack = "size" /\ pcImu = "push")

\* C3: whenever a tracking call has returned success, in either mode,
\* hasTracked_ is true.
C3_SuccessSetsHasTracked == retTrack = "true" => hasTracked_

\* A step of the tracking call up to the reading of the tracking state: the
\* decode, the drain, the engine call and GetTrackingState.
BeforeGateStep ==
    /\ pcTrack \in {"idle", "lock", "drain", "unlock", "size", "engine",
                    "in_engine", "state"}
    /\ (pcTrack' # pcTrack \/ nFrames' # nFrames)

\* C4: when the engine reports a merge in progress, whatever tracking state
\* it reports, the call returns failure, and no step of the call changes
\* latestTrackedPose_, hasTracked_ or the reference-pose table.
C4_MergeGateLeavesStateUnchanged ==
    [][/\ BeforeGateStep =>
            UNCHANGED <<latestTrackedPose_, hasTracked_, mapReferencePoses_>>
       /\ \A st \in TrackingStates :
            (pcTrack = "gate" /\ currentTrackingState = st
               /\ pcTrack' # "gate" /\ mergeDetected') =>
                /\ pcTrack' = "idle"
                /\ retTrack' = "false"
                /\ UNCHANGED <<latestTrackedPose_, hasTracked_,
                               mapReferencePoses_>>]_vars

\* A call was abandoned for a merge after an earlier call had succeeded, with
\* a current map for which the engine could report OK.
C4_Witness ==
    /\ pcTrack = "idle"
    /\ mergeDetected
    /\ retTrack = "false"
    /\ hasTracked_
    /\ latestTrackedPose_ # Indeterminate
    /\ curMap \in DOMAIN mapReferencePoses_

\* C5: an inertial call that found the buffer empty when it examined it under
\* the lock does not go on to invoke the engine.
C5_EmptyBufferSkipsEngine ==
    (pcTrack \in {"engine", "in_engine"} /\ inertial) => ~sawEmpty

\* The samples of a buffer are in non-decreasing order of their stamps.
NonDecreasing(buf) ==
    \A a, b \in DOMAIN buf : a < b => buf[a].t <= buf[b].t

\* C6: draining a buffer whose stamps are non-decreasing collects exactly the
\* samples stamped at or before the earlier of the two image stamps, in
\* buffer order, and leaves exactly the later ones, in their order.
C6_DrainSplitsAtFrameTime ==
    [][(pcTrack = "drain" /\ pcTrack' = "unlock" /\ NonDecreasing(imuBuf_)) =>
        LET tFrame == IF frameStamp.rgb <= frameStamp.d
                      THEN frameStamp.rgb ELSE frameStamp.d
        IN  /\ vImuMeas' = SelectSeq(imuBuf_, LAMBDA m : m.t <= tFrame)
            /\ imuBuf_' = SelectSeq(imuBuf_, LAMBDA m : m.t > tFrame)]_vars

\* A drain has just collected two samples with different stamps, the second
\* stamped at the frame's time, and left a later one in the buffer.
C6_Witness ==
    /\ pcTrack = "unlock"
    /\ Len(vImuMeas) = 2
    /\ vImuMeas[1].t < vImuMeas[2].t
    /\ vImuMeas[2].t = DrainLimit(frameStamp)
    /\ frameStamp.rgb # frameStamp.d
    /\ Len(imuBuf_) = 1
    /\ imuBuf_[1].t > DrainLimit(frameStamp)

\* C7: every sample handed to the engine is stamped at or before the earlier
\* image stamp of its frame, and over all calls the samples handed to the
\* engine appear in arrival order, none of them twice.
C7_EngineSamplesInOrderOnce ==
    /\ \A a \in DOMAIN engineImuLog : engineImuLog[a].t <= engineImuLog[a].limit
    /\ \A a, b \in DOMAIN engineImuLog :
            a < b => engineImuLog[a].id < engineImuLog[b].id

\* Two different calls have each handed samples to the engine.
C7_Witness ==
    \E a, b \in DOMAIN engineImuLog :
        /\ a < b
        /\ engineImuLog[a].call # engineImuLog[b].call

\* C8: with no query running and the destructor not called, a resolve pass
\* that meets a map whose keyframe initKFid - 1 is not in the index goes on to
\* its normal end, and puts no entry for the missing identifier in the index.
C8_MissingParentIsSkipped ==
    (nSnaps = 0 /\ pcTrack = "r_loop" /\ EngineHeld) =>
        /\ ~crashed
        /\ \A k \in DOMAIN allKFs_ : allKFs_[k] # NullKF

\* C9 as stated: the index is historical, every keyframe it holds is still
\* in it after a later resolve pass has rebuilt it.
C9_IndexIsHistorical ==
    [][(pcTrack = "r_index" /\ pcTrack' = "r_loop") =>
            DOMAIN allKFs_ \subseteq DOMAIN allKFs_']_vars

\* C9: every resolve pass rebuilds the index from nothing: it starts from an
\* empty index, adds for each map the atlas listed at the start of the pass
\* exactly the keyframes that map reports when its turn comes, and replaces
\* allKFs_ by the result; an ALL_KEYFRAMES pose graph walks exactly the
\* keyframes the index holds when the walk begins.
C9_IndexIsRebuiltFromMaps ==
    [][/\ (pcTrack = "r_maps" /\ pcTrack' # "r_maps") =>
            /\ mpIdKFs' = EmptyMap
            /\ Range(mapsList') = liveMaps
       /\ (pcTrack = "r_pair" /\ mi' = mi + 1) =>
            DOMAIN mpIdKFs' = (DOMAIN mpIdKFs) \cup mapKFs[mapsList[mi + 1]]
       /\ (pcTrack = "r_index" /\ pcTrack' = "r_loop") =>
            /\ mi = Len(mapsList)
            /\ allKFs_' = mpIdKFs
       /\ (pcSnap = "s_begin" /\ pcSnap' = "s_graph" /\ ~currentMapKFOnly) =>
            vKeyFrames' = Ascending(DOMAIN allKFs_)]_vars

\* An ALL_KEYFRAMES snapshot has emitted a keyframe from the index, and a
\* later resolve pass has rebuilt the index without it.
C9_Witness ==
    /\ pcSnap = "s_done"
    /\ ~currentMapKFOnly
    /\ pcTrack \in {"r_loop", "correct"}
    /\ Alive
    /\ EngineHeld
    /\ \E a \in DOMAIN mapDataMsg.poses_id :
            mapDataMsg.poses_id[a] \notin DOMAIN allKFs_

\* Every non-root map of the sorted list has its keyframe initKFid - 1 in the
\* index (as a keyframe, not as the null pointer a failed lookup leaves) and
\* among the keyframes of a map that comes earlier in the list.
WellFormedForest ==
    \A b \in DOMAIN mapsList :
        \/ initKFid[mapsList[b]] = 0
        \/ /\ initKFid[mapsList[b]] - 1 \in DOMAIN allKFs_
           /\ allKFs_[initKFid[mapsList[b]] - 1] # NullKF
           /\ \E a \in 1..(b - 1) :
                    initKFid[mapsList[b]] - 1 \in mapKFs[mapsList[a]]

\* C10: with no query running against the table and the destructor not
\* called, a resolve pass over a forest in which every non-root map's keyframe
\* initKFid - 1 is in the index and belongs to an earlier map ends normally,
\* and the table then holds an entry for each map of the forest and for
\* nothing else.
C10_ResolveAllComplete ==
    (nSnaps = 0 /\ pcTrack \in {"r_loop", "correct"} /\ WellFormedForest
        /\ EngineHeld) =>
        /\ ~crashed
        /\ pcTrack = "correct" => DOMAIN mapReferencePoses_ = Range(mapsList)

\* A pass over a root map and a map spawned from it has ended.
C10_Witness ==
    /\ nSnaps = 0
    /\ Alive
    /\ EngineHeld
    /\ pcTrack = "correct"
    /\ Len(mapsList) = MaxMaps
    /\ initKFid[mapsList[MaxMaps]] > 1
    /\ WellFormedForest
    /\ DOMAIN mapReferencePoses_ = Range(mapsList)

\* C11: whenever a resolve pass that no query runs beside writes the reference pose of a non-root map,
\* that pose is a determinate value and equals the reference pose the table
\* then holds for the map owning keyframe initKFid - 1, composed with that
\* keyframe's pose.
C11_ChainsThroughParent ==
    [][(pcTrack = "r_loop" /\ nSnaps = 0 /\ c' = c + 1
            /\ initKFid[mapsList[c + 1]] # 0) =>
        LET B == mapsList[c + 1]
            parent == initKFid[B] - 1
        IN  /\ mapReferencePoses_'[B] # Indeterminate
            /\ mapReferencePoses_'[B] =
                    Compose(mapReferencePoses_'[kfMap[parent]],
                            se3ToAffine(kfPose[parent]))]_vars

\* C12: a call of getMapToOdomTF made while hasTracked_ is false leaves the
\* caller's transform as it was and changes nothing of the interface's
\* shared state.
C12_NoTransformBeforeTracking ==
    [][(pcOdom = "idle" /\ pcOdom' = "done" /\ ~hasTracked_) =>
        /\ tf' = tf
        /\ UNCHANGED <<tableVars, bufVars, mapDataMutex_>>]_vars

\* A call of getMapToOdomTF has returned after a failed tracking call and
\* before any success: the transform is still the caller's.
C12_Witness ==
    /\ pcOdom = "done"
    /\ ~hasTracked_
    /\ latestTrackedPose_ = Indeterminate
    /\ retTrack = "false"
    /\ tf = CallerTF

\* The query thread is inside the point assembly of lines 121-142.
InPointAssembly == pcSnap \in {"s_nodes", "s_pts", "s_pt"}

\* C13: the point assembly visits the requested identifiers in request order;
\* an identifier the index does not hold adds nothing, an identifier it holds
\* adds one node carrying that identifier at the end of the message; while
\* the tracking thread is between two calls and the destructor has not been
\* called the assembly does not fault; the loop ends only after the last identifier, and
\* the call then releases mapDataMutex_ and returns.
C13_UnknownIdsAreSkipped ==
    [][/\ (pcSnap = "s_nodes" /\ it' = it + 1) =>
            /\ kFIDforMapPoints[it + 1] \notin DOMAIN allKFs_
            /\ mapDataMsg'.nodes = mapDataMsg.nodes
       /\ (pcSnap = "s_nodes" /\ pcSnap' = "s_pts") =>
            kFIDforMapPoints[it + 1] \in DOMAIN allKFs_
       /\ (pcSnap = "s_pt" /\ it' = it + 1) =>
            /\ Len(mapDataMsg'.nodes) = Len(mapDataMsg.nodes) + 1
            /\ SubSeq(mapDataMsg'.nodes, 1, Len(mapDataMsg.nodes)) = mapDataMsg.nodes
            /\ mapDataMsg'.nodes[Len(mapDataMsg.nodes) + 1].id =
                    kFIDforMapPoints[it + 1]
       /\ (InPointAssembly /\ pcTrack = "idle" /\ EngineHeld') => ~crashed'
       /\ (pcSnap = "s_nodes" /\ pcSnap' \notin {"s_nodes", "s_pts"}) =>
            /\ it = Len(kFIDforMapPoints)
            /\ pcSnap' = "s_unlock"
       /\ (pcSnap = "s_unlock" /\ pcSnap' # "s_unlock") =>
            /\ pcSnap' = "s_done"
            /\ mapDataMutex_' = "free"]_vars

\* C14: no map point whose bad flag is set when it is visited is put out by
\* the point assembly of mapDataToMsg or by getCurrentMapPoints, and every
\* visited point whose flag is not set is put out: the step that visits a bad
\* point leaves the output as it is, the step that visits another appends
\* one point, and with the tracking thread between two calls and the
\* destructor not called the visit of such a point does not fault.
C14_OnlyGoodPointsAppear ==
    [][/\ (pcSnap = "s_pt" /\ jt' = jt + 1) =>
            Len(pushedKf'.word_pts) =
                Len(pushedKf.word_pts) + (IF vPts[jt + 1] \in badPts THEN 0 ELSE 1)
       /\ (pcSnap = "p_pt" /\ jt' = jt + 1) =>
            Len(trackedMapPoints') =
                Len(trackedMapPoints) + (IF vPts[jt + 1] \in badPts THEN 0 ELSE 1)
       /\ (QueryAtPoint /\ pcTrack = "idle" /\ EngineHeld') => ~crashed']_vars

\* C15: an inertial call that returns without invoking the engine for lack of
\* inertial data has removed no sample from the buffer: it collected none in
\* its drain, and its return leaves the buffer as it is.
C15_SkipRemovesNoSample ==
    [][(pcTrack = "size" /\ pcTrack' = "idle") =>
        /\ vImuMeas = <<>>
        /\ imuBuf_' = imuBuf_]_vars

\* C16: in inertial mode the engine's tracking step is never invoked with an
\* empty set of collected samples: whenever the inertial call stands at the
\* engine call of line 270, its drain collected at least one sample.
C16_EngineGetsSamples == (pcTrack = "engine" /\ inertial) => vImuMeas # <<>>

\* C17: ascending initKFid is a topological order of every forest the engine
\* can produce.  In a pass that no snapshot query runs beside, the first map
\* of the sorted list is a root, and when the loop composes the pose of a
\* non-root map whose parent keyframe is indexed, the map owning that
\* keyframe already has a pose in the table, written earlier in the pass,
\* that is not a default-constructed one.
C17_SortIsTopological ==
    [][(pcTrack = "r_loop" /\ nSnaps = 0 /\ c < Len(mapsList) /\ c' = c + 1) =>
        LET B == mapsList[c + 1]
            parent == initKFid[B] - 1
        IN  /\ c = 0 => initKFid[B] = 0
            /\ initKFid[B] # 0 =>
                   /\ kfMap[allKFs_[parent]] # B
                   /\ kfMap[allKFs_[parent]] \in DOMAIN mapReferencePoses_
                   /\ mapReferencePoses_[kfMap[allKFs_[parent]]] # Indeterminate]_vars

\* C18: until the destructor is called, latestTrackedPose_, hasTracked_ and
\* mapReferencePoses_ are modified only by a tracking call that returns
\* success.  Every step that changes one of the three is a step of the tracking thread between the engine's OK and
\* the return of true (lines 279-285, 341-346); the step on which a call
\* returns false changes none of them; and the step on which a call fails to
\* decode its images also leaves imuBuf_ as it is.
C18_OnlySuccessModifies ==
    [][/\ (<<latestTrackedPose_, hasTracked_, mapReferencePoses_>>' #
                <<latestTrackedPose_, hasTracked_, mapReferencePoses_>>
            /\ EngineHeld') =>
            /\ pcTrack \in {"r_clear", "r_maps", "r_pair", "r_index", "r_loop",
                            "correct"}
            /\ (pcTrack' # pcTrack \/ c' # c)
       /\ (retTrack' = "false" /\ (nFrames' # nFrames \/ pcTrack' # pcTrack)) =>
            UNCHANGED <<latestTrackedPose_, hasTracked_, mapReferencePoses_>>
       /\ (nFrames' # nFrames /\ diag' = "decode") => imuBuf_' = imuBuf_]_vars

\* The engine's tracking call of lines 270 and 332 is about to be made or is
\* in progress.
AtEngineCall == pcTrack \in {"engine", "in_engine"}

\* C19 as stated: the tracking thread does not hold bufMutex_ while the
\* engine's tracking call is in progress, it holds it only from line 252 to
\* line 266, and a handleIMU waiting for the mutex eventually acquires it,
\* for as long as the process runs.
C19_LockNotHeldAcrossEngine ==
    /\ [](AtEngineCall => bufMutex_ # "track")
    /\ [](bufMutex_ = "track" => pcTrack \in {"drain", "unlock"})
    /\ (pcImu = "lock") ~> (pcImu = "push" \/ crashed)

\* C19: the tracking thread does not hold bufMutex_ while the engine's
\* tracking call is in progress; it holds it only from line 252 to line 266;
\* every hold ends, so no path through the call leaves the mutex locked; and
\* whenever the tracking thread is outside lines 252-266, during the whole
\* of the engine call in particular, a handleIMU waiting for the mutex finds
\* it free.
C19_EngineCallLeavesLockFree ==
    /\ [](AtEngineCall => bufMutex_ # "track")
    /\ [](bufMutex_ = "track" => pcTrack \in {"drain", "unlock"})
    /\ []((pcImu = "lock" /\ pcTrack \notin {"drain", "unlock"}) =>
            bufMutex_ = "free")
    /\ (bufMutex_ = "track") ~> (bufMutex_ # "track" \/ crashed)

\* A handleIMU acquired the mutex while an inertial engine call was running.
C19_Witness ==
    /\ pcTrack = "in_engine"
    /\ inertial
    /\ pcImu = "push"
    /\ bufMutex_ = "imu"
    /\ Alive
    /\ EngineHeld

\* C20: the snapshot queries are read-only on the shared tables.  While the
\* destructor has not been called and getOptimizedPoseGraph, the point assembly of mapDataToMsg or
\* getCurrentMapPoints is running and the tracking thread is outside its
\* recompute, no step changes the set of keys of mapReferencePoses_ or of
\* allKFs_: a map without a reference pose stays without one.
C20_QueriesAreReadOnly ==
    [][(pcSnap \in {"s_graph", "s_nodes", "s_pts", "s_pt", "p_loop", "p_pt"}
            /\ ~InRecompute /\ pcTrack # "r_clear" /\ pcTrack # "correct"
            /\ EngineHeld') =>
        /\ DOMAIN mapReferencePoses_' = DOMAIN mapReferencePoses_
        /\ DOMAIN allKFs_' = DOMAIN allKFs_]_vars

====
